---- MODULE Spec2Model ----
(***************************************************************************)
(* Model of the supply_chain::supply_chain Move module                     *)
(* (contracts/sources/supply_chain.move) running on the Sui ledger.        *)
(*                                                                         *)
(* The ledger state is the set of Shipment objects with their owners, the  *)
(* ShipmentRegistry created by init, the emitted events and the ledger     *)
(* clock.  Every entry function is one action; a transaction that aborts   *)
(* leaves the ledger exactly as it was (Move aborts revert all effects),   *)
(* and only the transaction receipt lastTx records that it happened.       *)
(***************************************************************************)
EXTENDS Integers, Sequences, FiniteSets, TLC

VARIABLES
    shipments,   \* Seq of Shipment structs; the index is the object's UID
    owner,       \* Seq of addresses: owner[o] is the address owning object o
    registries,  \* Seq of ShipmentRegistry structs (shared objects)
    events,      \* Seq of emitted events, in emission order
    clock,       \* timestamp_ms of the ledger Clock object
    accepted,    \* number of calls of the module's entry functions that succeeded
    lastTx,      \* receipt of the most recent transaction
    pool,        \* transactions submitted to the ledger and not yet executed
    ui,          \* React state of the frontend App and its request in flight
    coord,       \* the Coordinator's run for one event-submission request
    sui,         \* the SuiService instance and its connect calls in progress
    signer       \* the Oracle's Canonicalizer output and its Signer

vars == <<shipments, owner, registries, events, clock, accepted, lastTx, pool, ui, coord, sui, signer>>

----------------------------------------------------------------------------
(* Bounds of the model *)

MaxShipments == 2    \* Shipment objects that may be created
MaxTx == 2           \* accepted transactions
MaxClock == 1        \* largest clock value
MaxNow == 2          \* largest value of the browser's Date.now()
MaxAttempts == 2     \* submission attempts of the Ledger Client per run
MaxCalls == 2        \* connect calls of the SuiService awaiting the wallet
MaxLen == 2          \* bytes in a shipment_id or a summary given to encode

(* Inputs *)

Addresses == {"0xA", "0xB"}

\* "S1", "S2"
ShipmentIds == {<<83, 49>>, <<83, 50>>}

\* What the oracle submits for one event: summary, confidence and signature.
\* Summaries: "d", "e-acute" (two-byte UTF-8), and a truncated two-byte
\* sequence.  Confidence scores are u64: both ends of the valid range and
\* the first invalid value.
Report(summary, score, signature) ==
    [ai_summary |-> summary, confidence_score |-> score,
     oracle_signature |-> signature]

ValidReports == {Report(<<100>>, 0, <<>>),
                 Report(<<100>>, 0, <<7>>),
                 Report(<<195, 169>>, 100, <<7>>)}

InvalidReports == {Report(<<100>>, 101, <<7>>),
                   Report(<<195>>, 100, <<>>),
                   Report(<<195>>, 101, <<>>)}

Reports == ValidReports \cup InvalidReports

----------------------------------------------------------------------------
(* Error codes *)

EInvalidConfidenceScore == 1
EInvalidSignature == 2

NoAbort == [in |-> "", code |-> 0]
ConfidenceAbort == [in |-> "supply_chain", code |-> EInvalidConfidenceScore]
Utf8Abort == [in |-> "string", code |-> 1]
SignatureAbort == [in |-> "supply_chain", code |-> EInvalidSignature]

----------------------------------------------------------------------------
(* string::utf8: aborts unless the bytes are well-formed UTF-8, and        *)
(* otherwise wraps the same bytes in a String.                             *)

IsCont(b) == b >= 128 /\ b <= 191

RECURSIVE IsValidUtf8(_)
IsValidUtf8(bytes) ==
    IF bytes = <<>> THEN TRUE
    ELSE LET b == Head(bytes)
             n == Len(bytes)
             rest(k) == SubSeq(bytes, k + 1, n)
         IN  IF b <= 127 THEN IsValidUtf8(rest(1))
             ELSE IF b >= 194 /\ b <= 223
                  THEN n >= 2 /\ IsCont(bytes[2]) /\ IsValidUtf8(rest(2))
             ELSE IF b >= 224 /\ b <= 239
                  THEN /\ n >= 3
                       /\ IsCont(bytes[2])
                       /\ IsCont(bytes[3])
                       /\ (b = 224 => bytes[2] >= 160)
                       /\ (b = 237 => bytes[2] <= 159)
                       /\ IsValidUtf8(rest(3))
             ELSE IF b >= 240 /\ b <= 244
                  THEN /\ n >= 4
                       /\ IsCont(bytes[2])
                       /\ IsCont(bytes[3])
                       /\ IsCont(bytes[4])
                       /\ (b = 240 => bytes[2] >= 144)
                       /\ (b = 244 => bytes[2] <= 143)
                       /\ IsValidUtf8(rest(4))
             ELSE FALSE

utf8(bytes) == [bytes |-> bytes]

----------------------------------------------------------------------------
(* Checks made by the entry functions, in program order *)

ValidConfidenceOff(confidence_score) == confidence_score <= 101

ValidConfidence(confidence_score) == confidence_score <= 100

\* oracle_update / create_shipment: the assert, then the two conversions
CreateAbortUtf8First(shipment_id, ai_summary, confidence_score) ==
    IF ~IsValidUtf8(shipment_id) THEN Utf8Abort
    ELSE IF ~IsValidUtf8(ai_summary) THEN Utf8Abort
    ELSE IF ~ValidConfidence(confidence_score) THEN ConfidenceAbort
    ELSE NoAbort

CreateAbort(shipment_id, ai_summary, confidence_score) ==
    IF ~ValidConfidence(confidence_score) THEN ConfidenceAbort
    ELSE IF ~IsValidUtf8(shipment_id) THEN Utf8Abort
    ELSE IF ~IsValidUtf8(ai_summary) THEN Utf8Abort
    ELSE NoAbort

\* oracle_update: what it checks of its four arguments.  oracle_signature
\* is stored as received and takes no part in any check
OracleAbortVerified(shipment_id, ai_summary, confidence_score, oracle_signature) ==
    IF oracle_signature = <<>> THEN SignatureAbort
    ELSE CreateAbort(shipment_id, ai_summary, confidence_score)

OracleAbort(shipment_id, ai_summary, confidence_score, oracle_signature) ==
    CreateAbort(shipment_id, ai_summary, confidence_score)

\* update_shipment: the assert, then the conversion of new_summary
UpdateAbort(new_summary, new_confidence) ==
    IF ~ValidConfidence(new_confidence) THEN ConfidenceAbort
    ELSE IF ~IsValidUtf8(new_summary) THEN Utf8Abort
    ELSE NoAbort

\* An address-owned object can be passed by &mut only by its owner
OwnsAnyone(sender, o) == TRUE

Owns(sender, o) == owner[o] = sender

----------------------------------------------------------------------------
(* Structs built by the entry functions *)

\* oracle_update: the Shipment it creates
OracleShipmentNoSignature(shipment_id, ai_summary, confidence_score, oracle_signature, timestamp, oracle_addr) ==
    [shipment_id |-> utf8(shipment_id),
     ai_summary |-> utf8(ai_summary),
     confidence_score |-> confidence_score,
     timestamp |-> timestamp,
     oracle_signature |-> <<>>,
     oracle_address |-> oracle_addr]

OracleShipment(shipment_id, ai_summary, confidence_score, oracle_signature, timestamp, oracle_addr) ==
    [shipment_id |-> utf8(shipment_id),
     ai_summary |-> utf8(ai_summary),
     confidence_score |-> confidence_score,
     timestamp |-> timestamp,
     oracle_signature |-> oracle_signature,
     oracle_address |-> oracle_addr]

\* oracle_update: the event it emits
OracleEventCreated(shipment_id, confidence_score, timestamp, oracle_addr) ==
    [type |-> "ShipmentCreated",
     shipment_id |-> utf8(shipment_id),
     timestamp |-> timestamp]

OracleEvent(shipment_id, confidence_score, timestamp, oracle_addr) ==
    [type |-> "ShipmentUpdated",
     shipment_id |-> utf8(shipment_id),
     confidence_score |-> confidence_score,
     timestamp |-> timestamp,
     oracle_address |-> oracle_addr]

\* create_shipment: the Shipment it creates
CreatedShipmentZeroTime(shipment_id, ai_summary, confidence_score, timestamp, creator) ==
    [shipment_id |-> utf8(shipment_id),
     ai_summary |-> utf8(ai_summary),
     confidence_score |-> confidence_score,
     timestamp |-> 0,
     oracle_signature |-> <<>>,
     oracle_address |-> creator]

CreatedShipment(shipment_id, ai_summary, confidence_score, timestamp, creator) ==
    [shipment_id |-> utf8(shipment_id),
     ai_summary |-> utf8(ai_summary),
     confidence_score |-> confidence_score,
     timestamp |-> timestamp,
     oracle_signature |-> <<>>,
     oracle_address |-> creator]

\* create_shipment: the event it emits
CreatedEvent(shipment_id, timestamp) ==
    [type |-> "ShipmentCreated",
     shipment_id |-> utf8(shipment_id),
     timestamp |-> timestamp]

\* update_shipment: the field assignments
UpdatedShipmentStaleTime(shipment, new_summary, new_confidence, new_signature, timestamp, sender) ==
    [shipment EXCEPT !.ai_summary = utf8(new_summary),
                     !.confidence_score = new_confidence,
                     !.oracle_signature = new_signature,
                     !.oracle_address = sender]

UpdatedShipmentZeroTime(shipment, new_summary, new_confidence, new_signature, timestamp, sender) ==
    [shipment EXCEPT !.ai_summary = utf8(new_summary),
                     !.confidence_score = new_confidence,
                     !.timestamp = 0,
                     !.oracle_signature = new_signature,
                     !.oracle_address = sender]

UpdatedShipmentStaleAddress(shipment, new_summary, new_confidence, new_signature, timestamp, sender) ==
    [shipment EXCEPT !.ai_summary = utf8(new_summary),
                     !.confidence_score = new_confidence,
                     !.timestamp = timestamp,
                     !.oracle_signature = new_signature]

UpdatedShipmentStaleSummary(shipment, new_summary, new_confidence, new_signature, timestamp, sender) ==
    [shipment EXCEPT !.confidence_score = new_confidence,
                     !.timestamp = timestamp,
                     !.oracle_signature = new_signature,
                     !.oracle_address = sender]

UpdatedShipmentRenamed(shipment, new_summary, new_confidence, new_signature, timestamp, sender) ==
    [shipment EXCEPT !.shipment_id = utf8(new_summary),
                     !.ai_summary = utf8(new_summary),
                     !.confidence_score = new_confidence,
                     !.timestamp = timestamp,
                     !.oracle_signature = new_signature,
                     !.oracle_address = sender]

UpdatedShipmentNewerOnly(shipment, new_summary, new_confidence, new_signature, timestamp, sender) ==
    IF shipment.timestamp >= timestamp THEN shipment
    ELSE [shipment EXCEPT !.ai_summary = utf8(new_summary),
                          !.confidence_score = new_confidence,
                          !.timestamp = timestamp,
                          !.oracle_signature = new_signature,
                          !.oracle_address = sender]

UpdatedShipment(shipment, new_summary, new_confidence, new_signature, timestamp, sender) ==
    [shipment EXCEPT !.ai_summary = utf8(new_summary),
                     !.confidence_score = new_confidence,
                     !.timestamp = timestamp,
                     !.oracle_signature = new_signature,
                     !.oracle_address = sender]

\* update_shipment: the event it emits, read from the updated struct
UpdatedEvent(shipment, new_confidence) ==
    [type |-> "ShipmentUpdated",
     shipment_id |-> shipment.shipment_id,
     confidence_score |-> new_confidence,
     timestamp |-> shipment.timestamp,
     oracle_address |-> shipment.oracle_address]

\* Accessors
get_shipment_id(shipment) == shipment.shipment_id
get_ai_summary(shipment) == shipment.ai_summary
get_confidence_score(shipment) == shipment.confidence_score
get_timestamp(shipment) == shipment.timestamp
get_oracle_address(shipment) == shipment.oracle_address
get_signature_length(shipment) == Len(shipment.oracle_signature)

----------------------------------------------------------------------------
(* Transaction receipts *)

\* What a transaction's effects report: the function called, how it ended,
\* and the object it created or mutated (0 when it changed nothing)
Receipt(fn, obj, status, abort) ==
    [fn |-> fn, obj |-> obj, status |-> status, abort |-> abort]

Ledger == <<shipments, owner, registries, events, clock, accepted>>

\* What is not stored on the ledger
OffLedger == <<pool, ui, coord, sui, signer>>

\* No transaction is waiting
NoPool == [submitted |-> <<>>, executed |-> <<>>, before |-> <<>>]

\* A Move abort reverts every effect of the transaction
Reverted(receipt) ==
    /\ lastTx' = receipt
    /\ UNCHANGED Ledger

----------------------------------------------------------------------------
(* The frontend: App.jsx, services/api.js and components/ReportDisplay.jsx *)

Null == "null"

\* null where a text is expected; a text is the sequence of its characters,
\* and the empty string is <<>>
NullId == <<"null">>

\* The event descriptions a request carries
EventDescriptions == {"delay", "damage"}

\* What the user types into the two fields of the form
EventTexts == {<<>>, <<" ">>, <<"d">>, <<" ", "d", " ">>}
FormShipmentIds == {<<>>, <<"S", 1>>}

\* String.prototype.trim
RECURSIVE trimStart(_)
trimStart(text) ==
    IF text # <<>> /\ Head(text) = " " THEN trimStart(Tail(text)) ELSE text

RECURSIVE trimEnd(_)
trimEnd(text) ==
    IF text # <<>> /\ text[Len(text)] = " "
    THEN trimEnd(SubSeq(text, 1, Len(text) - 1))
    ELSE text

trimNothing(text) == text

trim(text) == trimEnd(trimStart(text))

\* A text used as a condition: null and the empty string are falsy
Truthy(text) == text # NullId /\ text # <<>>

\* The stages a backend failure names
Stages == {"generation", "signing", "submission"}

\* The response object, with the fields ReportDisplay reads
Response(success, shipment_id, event_description, confidence_score, digest, error) ==
    [present |-> TRUE,
     success |-> success,
     shipment_id |-> shipment_id,
     event_description |-> event_description,
     confidence_score |-> confidence_score,
     digest |-> digest,
     error |-> error]

\* null
NoResponse ==
    [present |-> FALSE, success |-> FALSE, shipment_id |-> NullId,
     event_description |-> NullId, confidence_score |-> 0, digest |-> Null,
     error |-> Null]

MockConfidence == 82
MockDigest == "0xaaaa"

\* ApiService.getMockResponse
getMockResponse(eventDescription, shipmentId, now) ==
    LET generatedShipmentId ==
            IF Truthy(shipmentId) THEN shipmentId ELSE <<"SHIP-", now>>
    IN  Response(TRUE, generatedShipmentId, eventDescription, MockConfidence,
                 MockDigest, Null)

\* What the backend answers to POST /api/process-event: a confirmed
\* attestation, or a failure naming its stage
BackendReplies(eventDescription, shipmentId) ==
    {Response(TRUE, IF Truthy(shipmentId) THEN shipmentId ELSE <<"SHIP-", 0>>,
              eventDescription, 90, "0xd1", Null)}
    \cup {Response(FALSE, shipmentId, eventDescription, 0, Null, stage) :
             stage \in Stages}

\* How fetch ends: it throws, or resolves to an HTTP response
Fetched(threw, ok, status, data) ==
    [threw |-> threw, ok |-> ok, status |-> status, data |-> data]

NoFetch == Fetched(FALSE, FALSE, 0, NoResponse)
Unreachable == Fetched(TRUE, FALSE, 0, NoResponse)
HttpError == Fetched(FALSE, FALSE, 500, NoResponse)

Fetches(eventDescription, shipmentId) ==
    {Unreachable, HttpError}
    \cup {Fetched(FALSE, TRUE, 200, data) :
             data \in BackendReplies(eventDescription, shipmentId)}

\* ApiService.submitEvent: the parsed body of an ok response; anything
\* thrown on the way is caught and answered with the mock response
submitEvent(eventDescription, shipmentId, fetched, now) ==
    IF fetched.threw THEN getMockResponse(eventDescription, shipmentId, now)
    ELSE IF ~fetched.ok THEN getMockResponse(eventDescription, shipmentId, now)
    ELSE fetched.data

\* ReportDisplay: what is rendered for a result
ReportDisplay(result) ==
    IF ~result.present
    THEN [view |-> "placeholder", message |-> Null, digest |-> Null]
    ELSE IF ~result.success
    THEN [view |-> "error",
          message |-> IF result.error # Null THEN result.error
                      ELSE "Unknown error occurred",
          digest |-> Null]
    ELSE [view |-> "report", message |-> Null, digest |-> result.digest]

\* The arguments of a call of apiService.submitEvent that has not settled
Request(eventDescription, shipmentId) ==
    [event_description |-> eventDescription, shipment_id |-> shipmentId]

\* The state of App and of EventInput when they are mounted
IdleUi ==
    [result |-> NoResponse, isLoading |-> FALSE, error |-> Null,
     inFlight |-> <<>>, fetched |-> NoFetch,
     eventText |-> <<>>, shipmentId |-> <<>>]

\* App.handleSubmitEvent, up to its await
handleSubmitEvent(eventDescription, shipmentId) ==
    /\ ui' = [ui EXCEPT !.isLoading = TRUE,
                        !.error = Null,
                        !.inFlight = Append(@, Request(eventDescription,
                                                       shipmentId))]
    /\ UNCHANGED <<Ledger, lastTx, pool, coord, sui, signer>>

\* App.handleSubmitEvent, from the moment apiService.submitEvent resolves
SubmitEventResolves(n, fetched, now) ==
    LET response == submitEvent(ui.inFlight[n].event_description,
                                ui.inFlight[n].shipment_id, fetched, now)
    IN  /\ ui' = [ui EXCEPT !.result = response,
                            !.isLoading = FALSE,
                            !.inFlight = SubSeq(@, 1, n - 1)
                                         \o SubSeq(@, n + 1, Len(@)),
                            !.fetched = fetched]
        /\ UNCHANGED <<Ledger, lastTx, pool, coord, sui, signer>>

\* EventInput: the fields and the example buttons are disabled while
\* isLoading
setEventText(text) ==
    /\ ~ui.isLoading
    /\ ui' = [ui EXCEPT !.eventText = text]
    /\ UNCHANGED <<Ledger, lastTx, pool, coord, sui, signer>>

setShipmentId(text) ==
    /\ ~ui.isLoading
    /\ ui' = [ui EXCEPT !.shipmentId = text]
    /\ UNCHANGED <<Ledger, lastTx, pool, coord, sui, signer>>

\* EventInput: the submit button's disabled attribute
SubmitDisabledWhenEmpty == trim(ui.eventText) = <<>>

SubmitDisabled == ui.isLoading \/ trim(ui.eventText) = <<>>

\* EventInput.handleSubmit, which the form runs when it is submitted: it
\* calls onSubmit, that is App.handleSubmitEvent, or does nothing
handleSubmit ==
    IF Truthy(trim(ui.eventText))
    THEN handleSubmitEvent(ui.eventText,
                           IF Truthy(ui.shipmentId) THEN ui.shipmentId
                           ELSE NullId)
    ELSE UNCHANGED vars

SetEventTextCall == \E text \in EventTexts : setEventText(text)

SetShipmentIdCall == \E text \in FormShipmentIds : setShipmentId(text)

\* The form can be submitted while its submit button is enabled
HandleSubmitCall == ~SubmitDisabled /\ handleSubmit

SubmitEventResolvesCall ==
    \E n \in DOMAIN ui.inFlight, now \in 1..MaxNow :
        \E fetched \in Fetches(ui.inFlight[n].event_description,
                               ui.inFlight[n].shipment_id) :
            SubmitEventResolves(n, fetched, now)

NextClient ==
    \/ SetEventTextCall
    \/ SetShipmentIdCall
    \/ HandleSubmitCall
    \/ SubmitEventResolvesCall

----------------------------------------------------------------------------
(* The Coordinator: one run per event-submission request, through the      *)
(* stages Received, ReportGenerated, Signed, Submitted and then Confirmed   *)
(* or Failed.                                                              *)

CoordinatorShipmentIds == {<<"S", 1>>, <<"S", 2>>}

\* What the external report generator returns: a report with a summary and
\* a confidence score, or a failure (timeout, unusable output)
GeneratorOutcome(ok, summary, confidence_score) ==
    [ok |-> ok, summary |-> summary, confidence_score |-> confidence_score]

GeneratorFailure == GeneratorOutcome(FALSE, Null, 0)
NoGeneratorOutcome == GeneratorOutcome(FALSE, "none", 0)

GeneratorOutcomes ==
    {GeneratorOutcome(TRUE, "report", score) : score \in {-1, 0, 100, 101}}
    \cup {GeneratorFailure}

NoReport == [summary |-> Null, confidence_score |-> 0]

\* The locally constructed report of degraded mode
DegradedReport == [summary |-> "degraded", confidence_score |-> 10]

\* Canonicalizer and Signer: the signature is over the payload built from
\* shipment_id, summary and confidence_score
CanonicalPayload(shipment_id, summary, confidence_score) ==
    <<"payload", shipment_id, summary, confidence_score>>

NoSignature == [key |-> Null, over |-> <<>>]
Sign(payload) == [key |-> "oracle", over |-> payload]

\* How one submission attempt of the Ledger Client ends
LedgerOutcomes == {"digest", "transient", "permanent"}

\* No request
IdleCoordinator ==
    [stage |-> "Idle",
     degraded |-> FALSE,
     event_description |-> Null,
     shipment_id |-> NullId,
     generator |-> NoGeneratorOutcome,
     report |-> NoReport,
     signature |-> NoSignature,
     attempts |-> <<>>,
     outcomes |-> <<>>,
     digest |-> Null,
     error |-> Null]

\* A run ends in Failed with a tagged error
Fail(run, error) == [run EXCEPT !.stage = "Failed", !.error = error]

\* Step "ReportGenerated": the generator's report, or on generator failure
\* the degraded report if degraded mode is configured, else GenerationFailed
GeneratedAlwaysDegrades(run, outcome) ==
    LET seen == [run EXCEPT !.generator = outcome]
    IN  IF outcome.ok
        THEN [seen EXCEPT !.stage = "ReportGenerated",
                          !.report = [summary |-> outcome.summary,
                                      confidence_score |-> outcome.confidence_score]]
        ELSE [seen EXCEPT !.stage = "ReportGenerated",
                          !.report = DegradedReport]

Generated(run, outcome) ==
    LET seen == [run EXCEPT !.generator = outcome]
    IN  IF outcome.ok
        THEN [seen EXCEPT !.stage = "ReportGenerated",
                          !.report = [summary |-> outcome.summary,
                                      confidence_score |-> outcome.confidence_score]]
        ELSE IF run.degraded
        THEN [seen EXCEPT !.stage = "ReportGenerated",
                          !.report = DegradedReport]
        ELSE Fail(seen, "GenerationFailed")

\* Step "Signed": an out-of-range confidence score is rejected; otherwise
\* the canonical payload is built and signed
SignedClamping(run) ==
    LET score == IF run.report.confidence_score > 100 THEN 100
                 ELSE IF run.report.confidence_score < 0 THEN 0
                 ELSE run.report.confidence_score
    IN  [run EXCEPT !.stage = "Signed",
                    !.report = [run.report EXCEPT !.confidence_score = score],
                    !.signature = Sign(CanonicalPayload(run.shipment_id,
                                                        run.report.summary,
                                                        score))]

Signed(run) ==
    IF run.report.confidence_score < 0 \/ run.report.confidence_score > 100
    THEN Fail(run, "InvalidConfidence")
    ELSE [run EXCEPT !.stage = "Signed",
                     !.signature = Sign(CanonicalPayload(run.shipment_id,
                                                         run.report.summary,
                                                         run.report.confidence_score))]

\* The record handed to the Ledger Client
SignedRecord(run) ==
    [shipment_id |-> run.shipment_id,
     summary |-> run.report.summary,
     confidence_score |-> run.report.confidence_score,
     signature |-> run.signature]

\* Step "Submitted": the signed record goes to the Ledger Client, which makes
\* its first attempt
Submitted(run) ==
    [run EXCEPT !.stage = "Submitted", !.attempts = <<SignedRecord(run)>>]

\* The Ledger Client's attempt ends: a digest confirms the run, a permanent
\* failure ends it, a transient failure is retried while attempts remain
AttemptedResigns(run, outcome) ==
    LET seen == [run EXCEPT !.outcomes = Append(@, outcome)]
    IN  IF outcome = "digest"
        THEN [seen EXCEPT !.stage = "Confirmed", !.digest = "0xd1"]
        ELSE IF outcome = "permanent" THEN Fail(seen, "LedgerRejected")
        ELSE IF Len(run.attempts) < MaxAttempts
        THEN [seen EXCEPT !.stage = "Signed"]
        ELSE Fail(seen, "LedgerUnreachable")

AttemptedRetriesRejected(run, outcome) ==
    LET seen == [run EXCEPT !.outcomes = Append(@, outcome)]
    IN  IF outcome = "digest"
        THEN [seen EXCEPT !.stage = "Confirmed", !.digest = "0xd1"]
        ELSE IF outcome = "permanent" THEN IF Len(run.attempts) < MaxAttempts
             THEN [seen EXCEPT !.attempts = Append(@, run.attempts[Len(run.attempts)])]
             ELSE Fail(seen, "LedgerRejected")
        ELSE IF Len(run.attempts) < MaxAttempts
        THEN [seen EXCEPT !.attempts = Append(@, run.attempts[Len(run.attempts)])]
        ELSE Fail(seen, "LedgerUnreachable")

AttemptedSignsAgain(run, outcome) ==
    LET seen == [run EXCEPT !.outcomes = Append(@, outcome)]
    IN  IF outcome = "digest"
        THEN [seen EXCEPT !.stage = "Confirmed", !.digest = "0xd1"]
        ELSE IF outcome = "permanent" THEN Fail(seen, "LedgerRejected")
        ELSE IF Len(run.attempts) < MaxAttempts
        THEN [seen EXCEPT !.attempts = Append(@, [run.attempts[1] EXCEPT !.signature = Sign(<<"retry", Len(run.attempts)>>)])]
        ELSE Fail(seen, "LedgerUnreachable")

Attempted(run, outcome) ==
    LET seen == [run EXCEPT !.outcomes = Append(@, outcome)]
    IN  IF outcome = "digest"
        THEN [seen EXCEPT !.stage = "Confirmed", !.digest = "0xd1"]
        ELSE IF outcome = "permanent" THEN Fail(seen, "LedgerRejected")
        ELSE IF Len(run.attempts) < MaxAttempts
        THEN [seen EXCEPT !.attempts = Append(@, run.attempts[Len(run.attempts)])]
        ELSE Fail(seen, "LedgerUnreachable")

Coordinates(run) ==
    /\ coord' = run
    /\ UNCHANGED <<Ledger, lastTx, pool, ui, sui, signer>>

Receive(event_description, shipment_id, degraded) ==
    /\ coord.stage = "Idle"
    /\ Coordinates([coord EXCEPT !.stage = "Received",
                                 !.degraded = degraded,
                                 !.event_description = event_description,
                                 !.shipment_id = shipment_id])

Generate(outcome) ==
    /\ coord.stage = "Received"
    /\ Coordinates(Generated(coord, outcome))

SignReport ==
    /\ coord.stage = "ReportGenerated"
    /\ Coordinates(Signed(coord))

Submit ==
    /\ coord.stage = "Signed"
    /\ Coordinates(Submitted(coord))

Attempt(outcome) ==
    /\ coord.stage = "Submitted"
    /\ Coordinates(Attempted(coord, outcome))

ReceiveCall ==
    \E event_description \in EventDescriptions :
        \E shipment_id \in CoordinatorShipmentIds, degraded \in BOOLEAN :
            Receive(event_description, shipment_id, degraded)

GenerateCall == \E outcome \in GeneratorOutcomes : Generate(outcome)

AttemptCall == \E outcome \in LedgerOutcomes : Attempt(outcome)

NextCoordinator ==
    \/ ReceiveCall
    \/ GenerateCall
    \/ SignReport
    \/ Submit
    \/ AttemptCall

----------------------------------------------------------------------------
(* frontend/src/services/sui.js: the SuiService and the browser's wallet *)

\* Which wallet extension has injected itself into window
Wallets == {"none", "suishi", "suiWallet"}

\* getWallet: window.suishi first, then window.suiWallet, else null
getWallet(window) == IF window = "suishi" \/ window = "suiWallet" THEN window ELSE Null

NoWalletMessage == "No Sui wallet detected"
NoAccountsMessage == "No accounts found in wallet"

\* What a wallet hands back.  A promise resolves with a value or rejects
\* with a reason.  hasLength tells an array from null, undefined, true or
\* an object without accounts; a reason is an Error with a message, or
\* null
AccountLists == {<<>>, <<"0xA">>, <<"0xB">>, <<"0xA", "0xB">>, <<Null>>}

Resolves(hasLength, accounts) == [settled |-> "resolved", hasLength |-> hasLength, accounts |-> accounts, message |-> Null]

Rejects(message) == [settled |-> "rejected", hasLength |-> FALSE, accounts |-> <<>>, message |-> message]

WalletReplies ==
    {Resolves(TRUE, accounts) : accounts \in AccountLists}
    \cup {Resolves(FALSE, <<>>), Rejects("denied"), Rejects(Null)}

\* What a call of connect gave its caller
NoResult == [outcome |-> "none", success |-> FALSE, address |-> Null, error |-> Null]

Connected(address) == [outcome |-> "returned", success |-> TRUE, address |-> address, error |-> Null]

ConnectFailed(message) == [outcome |-> "returned", success |-> FALSE, address |-> Null, error |-> message]

\* error.message of a null reason raises a TypeError in the catch block,
\* and the promise of connect rejects
ConnectThrew == [outcome |-> "threw", success |-> FALSE, address |-> Null, error |-> "TypeError"]

\* constructor
NewSuiService == [connected |-> FALSE, address |-> Null, calls |-> <<>>, returned |-> NoResult]

Service(service) ==
    /\ sui' = service
    /\ UNCHANGED <<Ledger, lastTx, pool, ui, coord, signer>>

\* The catch block of connect
ConnectCaught(message) == IF message = Null THEN ConnectThrew ELSE ConnectFailed(message)

\* connect up to its first await: the wallet is looked up and asked
connect(window) ==
    IF getWallet(window) = Null
    THEN Service([sui EXCEPT !.returned = ConnectCaught(NoWalletMessage)])
    ELSE /\ Len(sui.calls) < MaxCalls
         /\ Service([sui EXCEPT !.calls = Append(@, IF window = "suishi" THEN "connect" ELSE "requestPermissions")])

\* connect after the accounts are known
ConnectAccounts(service, hasLength, accounts) ==
    IF hasLength /\ Len(accounts) > 0
    THEN [service EXCEPT !.address = accounts[1],
                         !.connected = TRUE,
                         !.returned = Connected(accounts[1])]
    ELSE [service EXCEPT !.returned = ConnectCaught(NoAccountsMessage)]

\* connect resumes when the wallet settles the promise call n awaits
ConnectResumes(n, reply) ==
    LET rest == [sui EXCEPT !.calls = SubSeq(@, 1, n - 1) \o SubSeq(@, n + 1, Len(@))]
    IN  IF sui.calls[n] = "connect"
        THEN IF reply.settled = "rejected"
             THEN Service([sui EXCEPT !.calls[n] = "requestPermissions"])
             ELSE Service(ConnectAccounts(rest, reply.hasLength, reply.accounts))
        ELSE IF reply.settled = "rejected"
             THEN Service([rest EXCEPT !.returned = ConnectCaught(reply.message)])
             ELSE Service(ConnectAccounts(rest, reply.hasLength, reply.accounts))

disconnect == Service([sui EXCEPT !.connected = FALSE, !.address = Null])

ConnectCall == \E window \in Wallets : connect(window)

ConnectResumesCall ==
    \E n \in DOMAIN sui.calls, reply \in WalletReplies : ConnectResumes(n, reply)

NextWallet ==
    \/ ConnectCall
    \/ ConnectResumesCall
    \/ disconnect

----------------------------------------------------------------------------
(* The Oracle's Canonicalizer (section 4.1) *)

\* Bytes of the strings given to encode; one of them is the byte a
\* delimiter-separated encoding would use between fields
Delimiter == 58
Alphabet == {Delimiter, 97}

Strings == UNION {[1..n -> Alphabet] : n \in 0..MaxLen}

\* encode does not validate the score; one score equals the delimiter byte
ScoreInputs == {0, Delimiter, 100}

Triple(shipment_id, summary, confidence_score) == [shipment_id |-> shipment_id, summary |-> summary, confidence_score |-> confidence_score]

\* Fields joined by a delimiter, in order
encodeDelimited(shipment_id, summary, confidence_score) ==
    shipment_id \o <<Delimiter>> \o summary \o <<Delimiter>> \o <<confidence_score>>

\* encode: the fields in order, each string preceded by its length
encode(shipment_id, summary, confidence_score) ==
    <<Len(shipment_id)>> \o shipment_id \o <<Len(summary)>> \o summary \o <<confidence_score>>

NoEncoding == [present |-> FALSE, triple |-> Triple(<<>>, <<>>, 0), bytes |-> <<>>]

Encoded(shipment_id, summary, confidence_score) ==
    [present |-> TRUE,
     triple |-> Triple(shipment_id, summary, confidence_score),
     bytes |-> encode(shipment_id, summary, confidence_score)]

----------------------------------------------------------------------------
(* The Oracle's Signer (section 4.2) *)

\* Ed25519 is a Schnorr signature over a group of prime order.  The model
\* keeps its equations and shrinks the group: the subgroup of order
\* GroupOrder of the integers modulo Modulus, generated by Generator.
GroupOrder == 11
Modulus == 23
Generator == 2

RECURSIVE Power(_, _)
Power(base, exponent) ==
    IF exponent = 0 THEN 1 ELSE (base * Power(base, exponent - 1)) % Modulus

Scalars == 1..(GroupOrder - 1)

\* The public key of a private scalar
public_key(key) == Power(Generator, key)

PublicKeys == {public_key(key) : key \in Scalars}

\* The payloads the Oracle signs, and byte sequences that differ from one
\* of them: a byte changed, a byte appended, the last byte dropped
Payloads ==
    <<encode(<<97>>, <<97, Delimiter>>, 82),
      encode(<<97>>, <<>>, 0)>>

Messages ==
    Payloads \o
    <<[Payloads[1] EXCEPT ![Len(Payloads[1])] = 83],
      Append(Payloads[1], 0),
      SubSeq(Payloads[1], 1, Len(Payloads[1]) - 1)>>

\* The hash of the signature scheme, taken to be free of collisions: the
\* digest of a message is its number, a scalar other than 0
Digest(bytes) == CHOOSE n \in DOMAIN Messages : Messages[n] = bytes

NoSignature25519 == [R |-> 0, S |-> 0]

\* sign with a scalar that forgets the digest
signWithoutDigest(key, bytes, nonce) ==
    [R |-> Power(Generator, nonce), S |-> (nonce + key) % GroupOrder]

\* sign: R = nonce * B, S = nonce + H(M) * key; the nonce may be random
sign(key, bytes, nonce) ==
    [R |-> Power(Generator, nonce),
     S |-> (nonce + Digest(bytes) * key) % GroupOrder]

\* verify: S * B = R + H(M) * A
verify(bytes, signature, public) ==
    Power(Generator, signature.S)
        = (signature.R * Power(public, Digest(bytes))) % Modulus

NoVerdict == [present |-> FALSE, bytes |-> <<>>, public_key |-> 0, valid |-> FALSE]

NewSigner == [encoded |-> NoEncoding, key |-> 0, signed |-> <<>>, signature |-> NoSignature25519, verdict |-> NoVerdict]

Attests(next) ==
    /\ signer' = next
    /\ UNCHANGED <<Ledger, lastTx, pool, ui, coord, sui>>

\* The Canonicalizer encodes a triple
EncodeCall ==
    \E shipment_id \in Strings, summary \in Strings, confidence_score \in ScoreInputs :
        Attests([signer EXCEPT !.encoded = Encoded(shipment_id, summary, confidence_score)])

\* The Signer is constructed once, from the key material provided
Startup ==
    /\ signer.key = 0
    /\ \E key \in Scalars : Attests([signer EXCEPT !.key = key])

\* The Signer signs a canonical payload
SignCall ==
    /\ signer.key # 0
    /\ \E n \in DOMAIN Payloads, nonce \in Scalars :
          Attests([signer EXCEPT !.signed = Payloads[n],
                                 !.signature = sign(signer.key, Payloads[n], nonce),
                                 !.verdict = NoVerdict])

\* Anyone verifies the Signer's latest signature, over any bytes and
\* against any public key
VerifyCall ==
    /\ signer.signature # NoSignature25519
    /\ \E n \in DOMAIN Messages, public \in PublicKeys :
          Attests([signer EXCEPT !.verdict = [present |-> TRUE,
                                              bytes |-> Messages[n],
                                              public_key |-> public,
                                              valid |-> verify(Messages[n], signer.signature, public)]])

NextCanonicalizer == EncodeCall

NextSigner ==
    \/ Startup
    \/ SignCall
    \/ VerifyCall

----------------------------------------------------------------------------
(* State after the package is published: init has run once *)

\* init: the ShipmentRegistry it builds, and the shared objects it leaves
NewRegistry(sender) == [owner |-> sender]

SharedRegistriesTwice(publisher) ==
    <<NewRegistry(publisher), NewRegistry(publisher)>>

SharedRegistries(publisher) == <<NewRegistry(publisher)>>

Init ==
    /\ shipments = <<>>
    /\ owner = <<>>
    /\ \E publisher \in Addresses : registries = SharedRegistries(publisher)
    /\ events = <<>>
    /\ clock = 0
    /\ accepted = 0
    /\ lastTx = Receipt("init", 0, "Success", NoAbort)
    /\ pool = NoPool
    /\ ui = IdleUi
    /\ coord = IdleCoordinator
    /\ sui = NewSuiService
    /\ signer = NewSigner

\* The ledger clock advances between transactions and never goes back
Tick ==
    /\ clock < MaxClock
    /\ clock' = clock + 1
    /\ UNCHANGED <<shipments, owner, registries, events, accepted, lastTx>>
    /\ UNCHANGED OffLedger

\* transfer::transfer: the new object becomes owned by the recipient
transferToRegistryOwner(recipient) == Append(owner, registries[1].owner)

transfer(recipient) == Append(owner, recipient)

oracle_update(sender, shipment_id, ai_summary, confidence_score, oracle_signature) ==
    LET abort == OracleAbort(shipment_id, ai_summary, confidence_score,
                             oracle_signature)
        timestamp == clock
        oracle_addr == sender
        obj == Len(shipments) + 1
        shipment == OracleShipment(shipment_id, ai_summary, confidence_score,
                                   oracle_signature, timestamp, oracle_addr)
    IN  /\ accepted < MaxTx
        /\ Len(shipments) < MaxShipments
        /\ IF abort # NoAbort
           THEN Reverted(Receipt("oracle_update", 0, "Abort", abort))
           ELSE /\ shipments' = Append(shipments, shipment)
                /\ events' = Append(events,
                                    OracleEvent(shipment_id, confidence_score,
                                                timestamp, oracle_addr))
                /\ owner' = transfer(oracle_addr)
                /\ accepted' = accepted + 1
                /\ lastTx' = Receipt("oracle_update", obj, "Success", NoAbort)
                /\ UNCHANGED <<registries, clock>>

create_shipment(sender, shipment_id, ai_summary, confidence_score) ==
    LET abort == CreateAbort(shipment_id, ai_summary, confidence_score)
        timestamp == clock
        creator == sender
        obj == Len(shipments) + 1
        shipment == CreatedShipment(shipment_id, ai_summary,
                                    confidence_score, timestamp, creator)
    IN  /\ accepted < MaxTx
        /\ Len(shipments) < MaxShipments
        /\ IF abort # NoAbort
           THEN Reverted(Receipt("create_shipment", 0, "Abort", abort))
           ELSE /\ shipments' = Append(shipments, shipment)
                /\ events' = Append(events,
                                    CreatedEvent(shipment_id, timestamp))
                /\ owner' = transfer(creator)
                /\ accepted' = accepted + 1
                /\ lastTx' = Receipt("create_shipment", obj, "Success", NoAbort)
                /\ UNCHANGED <<registries, clock>>

\* update_shipment writes through its &mut Shipment argument: the object
\* passed to the call is the only one it can change
WriteShipmentFirst(o, updated) == [shipments EXCEPT ![1] = updated]

WriteShipment(o, updated) == [shipments EXCEPT ![o] = updated]

update_shipment(sender, o, new_summary, new_confidence, new_signature) ==
    LET abort == UpdateAbort(new_summary, new_confidence)
        updated == UpdatedShipment(shipments[o], new_summary, new_confidence,
                                   new_signature, clock, sender)
    IN  IF ~Owns(sender, o)
        THEN Reverted(Receipt("update_shipment", 0, "Refused", NoAbort))
        ELSE IF abort # NoAbort
        THEN Reverted(Receipt("update_shipment", 0, "Abort", abort))
        ELSE /\ shipments' = WriteShipment(o, updated)
             /\ events' = Append(events, UpdatedEvent(updated, new_confidence))
             /\ accepted' = accepted + 1
             /\ lastTx' = Receipt("update_shipment", o, "Success", NoAbort)
             /\ UNCHANGED <<owner, registries, clock>>

\* Any sender may submit any call
OracleUpdateCall ==
    \E sender \in Addresses, id \in ShipmentIds, r \in Reports :
        /\ oracle_update(sender, id, r.ai_summary, r.confidence_score,
                         r.oracle_signature)
        /\ UNCHANGED OffLedger

CreateShipmentCall ==
    \E sender \in Addresses, id \in ShipmentIds, r \in Reports :
        /\ create_shipment(sender, id, r.ai_summary, r.confidence_score)
        /\ UNCHANGED OffLedger

UpdateShipmentCall ==
    \E sender \in Addresses, o \in DOMAIN shipments, r \in Reports :
        /\ accepted < MaxTx
        /\ update_shipment(sender, o, r.ai_summary, r.confidence_score,
                           r.oracle_signature)
        /\ UNCHANGED OffLedger

Next ==
    \/ Tick
    \/ OracleUpdateCall
    \/ CreateShipmentCall
    \/ UpdateShipmentCall

\* The ledger driven through the module's entry functions
Spec == Init /\ [][Next]_vars

\* Shipment has the store ability, so the address owning one can hand it to
\* another address with transfer::public_transfer.  The module is not
\* called, and nothing but the ownership of the object changes.
public_transfer(sender, o, recipient) ==
    /\ Owns(sender, o)
    /\ owner' = [owner EXCEPT ![o] = recipient]
    /\ UNCHANGED <<shipments, registries, events, clock, accepted, lastTx>>

TransferCall ==
    \E sender \in Addresses, o \in DOMAIN shipments :
        \E recipient \in Addresses \ {sender} :
            public_transfer(sender, o, recipient) /\ UNCHANGED OffLedger

NextTransfer ==
    \/ OracleUpdateCall
    \/ CreateShipmentCall
    \/ UpdateShipmentCall
    \/ TransferCall

\* The same ledger within one clock value, when owners also transfer their
\* Shipment objects
SpecTransfer == Init /\ [][NextTransfer]_vars

----------------------------------------------------------------------------
(* Concurrent updates: two update_shipment transactions are submitted at   *)
(* the same time, and the ledger executes them one at a time, each one     *)
(* atomically, in an order of its own choosing.                            *)

\* The reports the submitted updates carry
UpdateReports == ValidReports \cup {Report(<<100>>, 101, <<7>>)}

\* A submitted update_shipment transaction: its sender and its arguments
UpdateTx(sender, o, r) == [sender |-> sender, o |-> o, report |-> r]

UpdateTxs ==
    {UpdateTx(sender, o, r) : sender \in Addresses, o \in 1..2, r \in UpdateReports}

\* The ledger after a create_shipment and an oracle_update were accepted
\* and the clock has advanced, with two updates submitted and none executed
InitUpdates ==
    \E publisher \in Addresses, creator \in Addresses, oracle \in Addresses :
      \E id1 \in ShipmentIds, id2 \in ShipmentIds :
        \E tx1 \in UpdateTxs, tx2 \in UpdateTxs :
          LET first == CreatedShipment(id1, <<100>>, 0, 0, creator)
              second == OracleShipment(id2, <<100>>, 0, <<7>>, 0, oracle)
          IN  /\ shipments = <<first, second>>
              /\ owner = <<creator, oracle>>
              /\ registries = SharedRegistries(publisher)
              /\ events = <<CreatedEvent(id1, 0), OracleEvent(id2, 0, 0, oracle)>>
              /\ clock = MaxClock
              /\ accepted = 2
              /\ lastTx = Receipt("oracle_update", 2, "Success", NoAbort)
              /\ pool = [submitted |-> <<tx1, tx2>>,
                         executed |-> <<>>,
                         before |-> <<first, second>>]
              /\ ui = IdleUi
              /\ coord = IdleCoordinator
              /\ sui = NewSuiService
              /\ signer = NewSigner

\* The ledger executes the i-th submitted transaction
Execute(i) ==
    LET tx == pool.submitted[i]
    IN  /\ \A n \in DOMAIN pool.executed : pool.executed[n] # i
        /\ update_shipment(tx.sender, tx.o, tx.report.ai_summary,
                           tx.report.confidence_score,
                           tx.report.oracle_signature)
        /\ pool' = [pool EXCEPT !.executed = Append(@, i)]
        /\ UNCHANGED <<ui, coord, sui, signer>>

ExecuteCall == \E i \in DOMAIN pool.submitted : Execute(i)

NextUpdates == ExecuteCall

SpecUpdates == InitUpdates /\ [][NextUpdates]_vars

\* The frontend: the user fills in the form and submits events
SpecClient == Init /\ [][NextClient]_vars

\* A call of apiService.submitEvent settles: its fetch resolves or rejects,
\* at the latest at the browser's network timeout, and the handler resumes
FairClient == SpecClient /\ WF_vars(SubmitEventResolvesCall)

\* The SuiService used from the browser: connect and disconnect in any order
SpecWallet == Init /\ [][NextWallet]_vars

\* The Canonicalizer applied to every triple of the bounded input sets
SpecCanonicalizer == Init /\ [][NextCanonicalizer]_vars

\* The Signer from its construction on
SpecSigner == Init /\ [][NextSigner]_vars

\* One run of the Coordinator
SpecCoordinator == Init /\ [][NextCoordinator]_vars

\* The Ledger Client's submit is a call in progress: each of its attempts
\* ends, with a digest or with a failure, at the latest at its timeout
FairCoordinator == SpecCoordinator /\ WF_vars(AttemptCall)

----------------------------------------------------------------------------
(* Vocabulary of the properties *)

Objects == DOMAIN shipments

Succeeded(fn) == lastTx.fn = fn /\ lastTx.status = "Success"

\* The events that carry one shipment_id, in emission order
EventsOf(id) == SelectSeq(events, LAMBDA e : e.shipment_id = id)

\* The step is a successful call of an entry function
Accepted == accepted' = accepted + 1

\* The step is a successful update_shipment of object o
UpdateStep(o) ==
    Accepted /\ lastTx'.fn = "update_shipment" /\ lastTx'.obj = o

\* The shipment_ids for which a Shipment object exists
ExistingIds == {get_shipment_id(shipments[o]) : o \in Objects}

\* The last request of the frontend failed: the backend was not reached,
\* answered with an HTTP error, or reported a failure
RequestFailed ==
    /\ ui.fetched # NoFetch
    /\ ui.fetched.threw \/ ~ui.fetched.ok \/ ~ui.fetched.data.success

\* The result shown by the frontend carries a shipment_id that
\* getMockResponse generated, none having been supplied
MockIdGenerated(state) ==
    /\ state.fetched # NoFetch
    /\ state.fetched.threw \/ ~state.fetched.ok
    /\ state.result.shipment_id[1] = "SHIP-"

\* The n-th transaction the ledger executed
Executed(n) == pool.submitted[pool.executed[n]]

\* update_shipment changes the record when the sender owns it and the
\* arguments pass its checks
Effective(tx) ==
    /\ tx.sender = owner[tx.o]
    /\ tx.report.confidence_score <= 100
    /\ IsValidUtf8(tx.report.ai_summary)

\* The ShipmentUpdated event of an effective update
EventOfTx(tx) ==
    [type |-> "ShipmentUpdated",
     shipment_id |-> get_shipment_id(pool.before[tx.o]),
     confidence_score |-> tx.report.confidence_score,
     timestamp |-> clock,
     oracle_address |-> tx.sender]

\* The record of object o after the first n executed transactions when only
\* the transactions for o's shipment_id are run
RECURSIVE AloneAfter(_, _)
AloneAfter(o, n) ==
    IF n = 0 THEN pool.before[o]
    ELSE LET tx == Executed(n)
             record == AloneAfter(o, n - 1)
             sameId == get_shipment_id(pool.before[tx.o]) =
                       get_shipment_id(pool.before[o])
         IN  IF sameId /\ tx.o = o /\ Effective(tx)
             THEN UpdatedShipment(record, tx.report.ai_summary,
                                  tx.report.confidence_score,
                                  tx.report.oracle_signature, clock, tx.sender)
             ELSE record

----------------------------------------------------------------------------
\* C1: every stored Shipment has confidence_score in the closed range
\* [0,100], whatever entry functions were called, by whom and with what.
ConfidenceInRange ==
    \A o \in Objects :
        /\ shipments[o].confidence_score >= 0
        /\ shipments[o].confidence_score <= 100

\* A record created with one end of the range and updated to the other
ConfidenceInRangeWitness ==
    /\ Succeeded("update_shipment")
    /\ shipments[lastTx.obj].confidence_score = 100
    /\ \E i \in DOMAIN events :
           /\ events[i].type = "ShipmentUpdated"
           /\ events[i].confidence_score = 0

\* C2: a call of oracle_update, create_shipment or update_shipment whose
\* confidence_score is outside [0,100] aborts with EInvalidConfidenceScore
\* and changes nothing on the ledger: no record is created, no field of a
\* record changes, no event is emitted.  (update_shipment is only ever
\* called by the owner of the record: see C4.)
InvalidConfidenceRejected ==
    [][\A sender \in Addresses, r \in Reports :
          r.confidence_score > 100 =>
            /\ \A id \in ShipmentIds :
                  oracle_update(sender, id, r.ai_summary, r.confidence_score,
                                r.oracle_signature)
                  => /\ lastTx' = Receipt("oracle_update", 0, "Abort",
                                          ConfidenceAbort)
                     /\ UNCHANGED Ledger
            /\ \A id \in ShipmentIds :
                  create_shipment(sender, id, r.ai_summary,
                                  r.confidence_score)
                  => /\ lastTx' = Receipt("create_shipment", 0, "Abort",
                                          ConfidenceAbort)
                     /\ UNCHANGED Ledger
            /\ \A o \in Objects :
                  (Owns(sender, o) /\
                   update_shipment(sender, o, r.ai_summary,
                                   r.confidence_score, r.oracle_signature))
                  => /\ lastTx' = Receipt("update_shipment", 0, "Abort",
                                          ConfidenceAbort)
                     /\ UNCHANGED Ledger]_vars

\* An update of an existing record was rejected for its confidence score
InvalidConfidenceRejectedWitness ==
    /\ lastTx = Receipt("update_shipment", 0, "Abort", ConfidenceAbort)
    /\ Len(shipments) = 1
    /\ Len(events) = 1

\* C3: at most one Shipment record exists per shipment_id; a creation-style
\* submission naming an existing shipment_id never makes a second record.
OneRecordPerShipmentId ==
    \A o1, o2 \in Objects :
        shipments[o1].shipment_id = shipments[o2].shipment_id => o1 = o2

\* C4: update_shipment changes a record only for the address that currently
\* owns it; an update attempted by any other address, the Registry's owner
\* included, is refused and changes nothing.
OnlyOwnerUpdates ==
    [][\A o \in Objects :
          /\ \A sender \in Addresses, r \in Reports :
                (sender # owner[o] /\
                 update_shipment(sender, o, r.ai_summary, r.confidence_score,
                                 r.oracle_signature))
                => /\ lastTx'.status = "Refused"
                   /\ UNCHANGED Ledger
          /\ shipments'[o] # shipments[o]
             => \E r \in Reports :
                   update_shipment(owner[o], o, r.ai_summary,
                                   r.confidence_score, r.oracle_signature)]_vars

\* A record that its creator, who owns the Registry, has transferred to
\* another address, and a refused update of it
OnlyOwnerUpdatesWitness ==
    /\ lastTx = Receipt("update_shipment", 0, "Refused", NoAbort)
    /\ Len(shipments) = 1
    /\ shipments[1].oracle_address = registries[1].owner
    /\ owner[1] # registries[1].owner

CreatedThenUpdated ==
    /\ Len(events) = accepted
    /\ (lastTx.status = "Success" /\ lastTx.obj \in Objects)
       => LET e == events[Len(events)]
              shipment == shipments[lastTx.obj]
          IN  /\ e.shipment_id = shipment.shipment_id
              /\ e.timestamp = shipment.timestamp
              /\ IF lastTx.fn = "update_shipment"
                 THEN /\ e.type = "ShipmentUpdated"
                      /\ e.confidence_score = shipment.confidence_score
                      /\ e.oracle_address = shipment.oracle_address
                 ELSE e.type = "ShipmentCreated"
    /\ \A o \in Objects :
          LET trace == EventsOf(shipments[o].shipment_id)
          IN  /\ trace # <<>>
              /\ trace[1].type = "ShipmentCreated"
              /\ \A i \in 2..Len(trace) : trace[i].type = "ShipmentUpdated"

\* C7, as claimed: every successful update leaves the record with a
\* timestamp strictly greater than the one it had.
UpdateRaisesTimestamp ==
    [][\A o \in Objects :
          UpdateStep(o) => shipments'[o].timestamp > shipments[o].timestamp]_vars

\* C7, amended: a successful update never lowers the record's timestamp, and
\* raises it whenever the ledger clock has advanced since the record was
\* created or last updated.
UpdateNeverLowersTimestamp ==
    [][\A o \in Objects :
          UpdateStep(o) =>
            /\ shipments'[o].timestamp >= shipments[o].timestamp
            /\ clock > shipments[o].timestamp
               => shipments'[o].timestamp > shipments[o].timestamp]_vars

\* A record created at clock 0 and updated at clock 1
UpdateNeverLowersTimestampWitness ==
    /\ Succeeded("update_shipment")
    /\ Len(shipments) = 1
    /\ Len(events) = 2
    /\ events[1].timestamp = 0
    /\ shipments[1].timestamp = 1

\* C8: the timestamp of a record is the ledger clock of the transaction that
\* created or last updated it: every call that writes a record writes the
\* clock, whoever calls and whatever the arguments.
TimestampIsLedgerClock ==
    [][\A o \in DOMAIN shipments' :
          IF o \in Objects
          THEN /\ UpdateStep(o) => shipments'[o].timestamp = clock
               /\ ~UpdateStep(o)
                  => shipments'[o].timestamp = shipments[o].timestamp
          ELSE shipments'[o].timestamp = clock]_vars

\* A record created by create_shipment after the clock advanced
TimestampIsLedgerClockWitness ==
    /\ Succeeded("create_shipment")
    /\ clock = 1
    /\ shipments[lastTx.obj].timestamp = 1

\* C9: the oracle_address of a record is the sender of the transaction that
\* created or last updated it; no call lets the sender name another address.
SignerIsSubmitter ==
    [][\A sender \in Addresses, r \in Reports :
          /\ \A id \in ShipmentIds :
                (Accepted /\
                 (\/ oracle_update(sender, id, r.ai_summary,
                                   r.confidence_score, r.oracle_signature)
                  \/ create_shipment(sender, id, r.ai_summary,
                                     r.confidence_score)))
                => shipments'[Len(shipments')].oracle_address = sender
          /\ \A o \in Objects :
                IF Accepted /\
                   update_shipment(sender, o, r.ai_summary,
                                   r.confidence_score, r.oracle_signature)
                THEN shipments'[o].oracle_address = sender
                ELSE UpdateStep(o) \/
                     shipments'[o].oracle_address = shipments[o].oracle_address
      ]_vars

\* A record created by one address, transferred, and updated by the other
SignerIsSubmitterWitness ==
    /\ Succeeded("update_shipment")
    /\ Len(shipments) = 1
    /\ Len(events) = 2
    /\ events[1].type = "ShipmentUpdated"
    /\ events[1].oracle_address # shipments[1].oracle_address
    /\ owner[1] = shipments[1].oracle_address

\* C10: a record read back right after oracle_update created it has the
\* submitted shipment_id, summary, confidence_score and signature; timestamp
\* and oracle_address are the ledger's clock and the sender.
OracleRoundTrip ==
    [][\A sender \in Addresses, id \in ShipmentIds, r \in Reports :
          (Accepted /\
           oracle_update(sender, id, r.ai_summary, r.confidence_score,
                         r.oracle_signature))
          => LET shipment == shipments'[lastTx'.obj]
             IN  /\ get_shipment_id(shipment).bytes = id
                 /\ get_ai_summary(shipment).bytes = r.ai_summary
                 /\ get_confidence_score(shipment) = r.confidence_score
                 /\ shipment.oracle_signature = r.oracle_signature
                 /\ get_signature_length(shipment) = Len(r.oracle_signature)
                 /\ get_timestamp(shipment) = clock
                 /\ get_oracle_address(shipment) = sender]_vars

\* A record just created by oracle_update with a non-empty signature and a
\* two-byte character in its summary
OracleRoundTripWitness ==
    /\ Succeeded("oracle_update")
    /\ shipments[lastTx.obj].oracle_signature = <<7>>
    /\ shipments[lastTx.obj].ai_summary = utf8(<<195, 169>>)

\* C11: a successful update_shipment replaces ai_summary, confidence_score,
\* oracle_signature, timestamp and oracle_address of the record with the
\* submitted summary, score and signature, the ledger clock and the sender;
\* the record keeps its shipment_id, stays the same object with the same
\* owner, and no object appears or disappears.
UpdateReplacesFields ==
    [][\A sender \in Addresses, o \in Objects, r \in Reports :
          (Accepted /\
           update_shipment(sender, o, r.ai_summary, r.confidence_score,
                           r.oracle_signature))
          => /\ get_ai_summary(shipments'[o]).bytes = r.ai_summary
             /\ get_confidence_score(shipments'[o]) = r.confidence_score
             /\ shipments'[o].oracle_signature = r.oracle_signature
             /\ get_timestamp(shipments'[o]) = clock
             /\ get_oracle_address(shipments'[o]) = sender
             /\ get_shipment_id(shipments'[o]) = get_shipment_id(shipments[o])
             /\ DOMAIN shipments' = DOMAIN shipments
             /\ owner' = owner
             /\ lastTx'.obj = o]_vars

\* A record whose update changed every replaceable field: the summary, the
\* score and the signature differ from those it was created with, and the
\* clock has advanced since its ShipmentCreated event
UpdateReplacesFieldsWitness ==
    /\ Succeeded("update_shipment")
    /\ Len(events) = 2
    /\ events[1].type = "ShipmentCreated"
    /\ events[1].timestamp < shipments[lastTx.obj].timestamp
    /\ shipments[lastTx.obj].ai_summary = utf8(<<195, 169>>)
    /\ shipments[lastTx.obj].confidence_score = 100
    /\ shipments[lastTx.obj].oracle_signature = <<7>>

\* C12: records are never deleted.  Every step keeps every Shipment object
\* and every shipment_id that has a record: the set of existing shipment_ids
\* only grows, whatever oracle_update, create_shipment and update_shipment
\* calls are made.
RecordsNeverDeleted ==
    [][/\ Objects \subseteq DOMAIN shipments'
       /\ ExistingIds \subseteq ExistingIds'
       /\ \A o \in Objects :
              get_shipment_id(shipments'[o]) = get_shipment_id(shipments[o])]_vars

\* A record that was created under one shipment_id and then updated: the
\* shipment_id of the creation is still the one that exists
RecordsNeverDeletedWitness ==
    /\ Succeeded("update_shipment")
    /\ Len(events) = 2
    /\ ExistingIds = {events[1].shipment_id}
    /\ events[1].shipment_id = utf8(<<83, 50>>)

\* C13: when two updates of the same record are submitted together, the
\* ledger executes one after the other.  Once both have run, the record
\* holds exactly the summary, score, signature and sender of the update
\* executed last, under its unchanged shipment_id, and each of the two has
\* emitted its own ShipmentUpdated event carrying its own score and sender,
\* in execution order.
ConcurrentUpdatesSerialised ==
    (/\ Len(pool.executed) = 2
     /\ pool.submitted[1].o = pool.submitted[2].o
     /\ Effective(pool.submitted[1])
     /\ Effective(pool.submitted[2]))
    => LET o == pool.submitted[1].o
           last == Executed(2)
       IN  /\ get_ai_summary(shipments[o]).bytes = last.report.ai_summary
           /\ get_confidence_score(shipments[o]) = last.report.confidence_score
           /\ shipments[o].oracle_signature = last.report.oracle_signature
           /\ get_oracle_address(shipments[o]) = last.sender
           /\ get_timestamp(shipments[o]) = clock
           /\ get_shipment_id(shipments[o]) = get_shipment_id(pool.before[o])
           /\ Len(events) = 4
           /\ events[3] = EventOfTx(Executed(1))
           /\ events[4] = EventOfTx(Executed(2))

\* Two effective updates of one record with different reports, executed in
\* the reverse of their submission order
ConcurrentUpdatesSerialisedWitness ==
    /\ pool.executed = <<2, 1>>
    /\ pool.submitted[1].o = pool.submitted[2].o
    /\ Effective(pool.submitted[1])
    /\ Effective(pool.submitted[2])
    /\ pool.submitted[1].report = Report(<<195, 169>>, 100, <<7>>)
    /\ pool.submitted[2].report = Report(<<100>>, 0, <<>>)
    /\ get_confidence_score(shipments[pool.submitted[1].o]) = 100

OneRegistry ==
    [][/\ Len(registries) = 1
       /\ registries[1].owner \in Addresses
       /\ registries' = registries]_vars

\* Two calls were accepted, the last an update by an address that is not
\* the registry's owner, and the registry is as init left it
OneRegistryWitness ==
    /\ Succeeded("update_shipment")
    /\ accepted = 2
    /\ Len(registries) = 1
    /\ get_oracle_address(shipments[lastTx.obj]) # registries[1].owner

\* C16: the module verifies no signature.  The outcome of oracle_update and
\* of update_shipment, the event emitted and every stored field but
\* oracle_signature are determined by the sender, the clock and the
\* arguments other than the signature, so two submissions that differ only
\* in their signature bytes (empty and forged ones included) end alike; no
\* transaction aborts with EInvalidSignature.
SignatureNotVerified ==
    [][/\ lastTx'.abort # SignatureAbort
       /\ \A sender \in Addresses, id \in ShipmentIds, r \in Reports :
              (lastTx'.fn = "oracle_update" /\
               oracle_update(sender, id, r.ai_summary, r.confidence_score,
                             r.oracle_signature))
              => IF r.confidence_score <= 100 /\ IsValidUtf8(id)
                    /\ IsValidUtf8(r.ai_summary)
                 THEN /\ lastTx'.status = "Success"
                      /\ events' = Append(events,
                             [type |-> "ShipmentUpdated",
                              shipment_id |-> utf8(id),
                              confidence_score |-> r.confidence_score,
                              timestamp |-> clock,
                              oracle_address |-> sender])
                      /\ [shipments'[lastTx'.obj] EXCEPT !.oracle_signature = <<>>]
                           = [shipment_id |-> utf8(id),
                              ai_summary |-> utf8(r.ai_summary),
                              confidence_score |-> r.confidence_score,
                              timestamp |-> clock,
                              oracle_signature |-> <<>>,
                              oracle_address |-> sender]
                 ELSE lastTx'.status = "Abort" /\ UNCHANGED Ledger
       /\ \A sender \in Addresses, o \in Objects, r \in Reports :
              (lastTx'.fn = "update_shipment" /\
               update_shipment(sender, o, r.ai_summary, r.confidence_score,
                               r.oracle_signature))
              => IF Owns(sender, o) /\ r.confidence_score <= 100
                    /\ IsValidUtf8(r.ai_summary)
                 THEN /\ lastTx'.status = "Success"
                      /\ events' = Append(events,
                             [type |-> "ShipmentUpdated",
                              shipment_id |-> get_shipment_id(shipments[o]),
                              confidence_score |-> r.confidence_score,
                              timestamp |-> clock,
                              oracle_address |-> sender])
                      /\ [shipments'[o] EXCEPT !.oracle_signature = <<>>]
                           = [shipment_id |-> get_shipment_id(shipments[o]),
                              ai_summary |-> utf8(r.ai_summary),
                              confidence_score |-> r.confidence_score,
                              timestamp |-> clock,
                              oracle_signature |-> <<>>,
                              oracle_address |-> sender]
                 ELSE lastTx'.status # "Success" /\ UNCHANGED Ledger]_vars

\* The same shipment_id, summary and score were accepted twice by
\* oracle_update, once with an empty signature and once with signature bytes
SignatureNotVerifiedWitness ==
    /\ Succeeded("oracle_update")
    /\ Len(shipments) = 2
    /\ shipments[1].oracle_signature = <<>>
    /\ shipments[2].oracle_signature = <<7>>
    /\ [shipments[1] EXCEPT !.oracle_signature = <<7>>] = shipments[2]
    /\ events[1] = events[2]

\* C17: every failed event submission is shown to the user as a failure
\* that names the stage which failed; a request that failed (backend
\* unreachable, HTTP error, failure reported by the backend) is never
\* shown as a completed report with a transaction digest.
FailuresReachCaller ==
    RequestFailed
    => /\ ReportDisplay(ui.result).view = "error"
       /\ ReportDisplay(ui.result).message \in Stages
       /\ ReportDisplay(ui.result).digest = Null

\* C18: a Coordinator run changes stage only forwards along Received,
\* ReportGenerated, Signed, Submitted, Confirmed, one stage at a time, or
\* from any of the first four to Failed.  Confirmed is entered from
\* Submitted only, and a run in Confirmed or Failed changes no more.
StagesInOrder ==
    [][/\ coord'.stage # coord.stage
          => <<coord.stage, coord'.stage>> \in
                {<<"Idle", "Received">>,
                 <<"Received", "ReportGenerated">>,
                 <<"ReportGenerated", "Signed">>,
                 <<"Signed", "Submitted">>,
                 <<"Submitted", "Confirmed">>,
                 <<"Received", "Failed">>,
                 <<"ReportGenerated", "Failed">>,
                 <<"Signed", "Failed">>,
                 <<"Submitted", "Failed">>}
       /\ coord.stage \in {"Confirmed", "Failed"} => coord' = coord]_vars

\* A run that was confirmed after the Ledger Client retried once
StagesInOrderWitness ==
    /\ coord.stage = "Confirmed"
    /\ Len(coord.attempts) = 2
    /\ coord.signature # NoSignature
    /\ coord.digest # Null

\* C19: once the report generator has failed in a run with degraded mode
\* disabled, the run is in Failed with GenerationFailed, and it has signed
\* nothing and handed nothing to the Ledger Client; it stays so for ever.
GenerationFailureStops ==
    (coord.generator = GeneratorFailure /\ ~coord.degraded)
    => /\ coord.stage = "Failed"
       /\ coord.error = "GenerationFailed"
       /\ coord.signature = NoSignature
       /\ coord.attempts = <<>>
       /\ coord.digest = Null

\* The generator failed in a run without degraded mode
GenerationFailureStopsWitness ==
    /\ coord.generator = GeneratorFailure
    /\ ~coord.degraded
    /\ coord.stage = "Failed"
    /\ coord.error = "GenerationFailed"

\* C20: once the generator has returned a confidence score outside [0,100],
\* the run keeps that score as returned (it is never clamped), signs
\* nothing and submits nothing; it is waiting for validation or it is in
\* Failed with InvalidConfidence, and validation can only fail it.
InvalidConfidenceStops ==
    (/\ coord.generator.ok
     /\ \/ coord.generator.confidence_score < 0
        \/ coord.generator.confidence_score > 100)
    => /\ coord.report.confidence_score = coord.generator.confidence_score
       /\ coord.stage \in {"ReportGenerated", "Failed"}
       /\ coord.stage = "Failed" => coord.error = "InvalidConfidence"
       /\ coord.signature = NoSignature
       /\ coord.attempts = <<>>
       /\ coord.digest = Null

\* A run whose generator returned 101 and that failed at validation
InvalidConfidenceStopsWitness ==
    /\ coord.generator.ok
    /\ coord.generator.confidence_score = 101
    /\ coord.stage = "Failed"
    /\ coord.error = "InvalidConfidence"

\* C21: the Ledger Client makes another attempt only after an attempt that
\* failed transiently, and never more than MaxAttempts attempts in all.
\* A permanent failure ends the call at once with LedgerRejected, an
\* exhausted sequence of transient failures ends it with LedgerUnreachable,
\* a digest confirms the run; and every submit call does end.
LedgerClientTerminates ==
    /\ [](/\ Len(coord.attempts) <= MaxAttempts
          /\ \A n \in DOMAIN coord.outcomes :
                 n < Len(coord.attempts) => coord.outcomes[n] = "transient"
          /\ coord.error = "LedgerRejected"
                => /\ coord.outcomes[Len(coord.outcomes)] = "permanent"
                   /\ Len(coord.outcomes) = Len(coord.attempts)
          /\ coord.error = "LedgerUnreachable"
                => /\ Len(coord.attempts) = MaxAttempts
                   /\ \A n \in DOMAIN coord.outcomes :
                          coord.outcomes[n] = "transient"
          /\ coord.stage = "Confirmed"
                => /\ coord.outcomes[Len(coord.outcomes)] = "digest"
                   /\ coord.digest # Null)
    /\ (coord.stage = "Submitted" ~> coord.stage \in {"Confirmed", "Failed"})

\* A submit call that gave up after MaxAttempts transient failures
LedgerClientTerminatesWitness ==
    /\ coord.stage = "Failed"
    /\ coord.error = "LedgerUnreachable"
    /\ Len(coord.attempts) = MaxAttempts
    /\ Len(coord.outcomes) = MaxAttempts

\* C22: a run hands a record to the Ledger Client once, on leaving Signed,
\* and from then on attempts are only added to that one sequence.  Every
\* attempt, retries included, carries the run's shipment_id, summary and
\* confidence_score and the signature made in the Signed stage over their
\* canonical payload.
OneAttemptSequence ==
    [][/\ coord'.attempts # coord.attempts
          => \/ /\ coord.attempts = <<>>
                /\ coord.stage = "Signed"
                /\ Len(coord'.attempts) = 1
             \/ /\ coord.stage = "Submitted"
                /\ Len(coord'.attempts) = Len(coord.attempts) + 1
                /\ SubSeq(coord'.attempts, 1, Len(coord.attempts))
                      = coord.attempts
       /\ \A n \in DOMAIN coord'.attempts :
              /\ coord'.attempts[n].shipment_id = coord'.shipment_id
              /\ coord'.attempts[n].summary = coord'.report.summary
              /\ coord'.attempts[n].confidence_score
                    = coord'.report.confidence_score
              /\ coord'.attempts[n].signature = coord'.signature
              /\ coord'.signature
                    = Sign(CanonicalPayload(coord'.shipment_id,
                                            coord'.report.summary,
                                            coord'.report.confidence_score))
       /\ coord.stage \in {"Signed", "Submitted"}
          => /\ coord'.signature = coord.signature
             /\ coord'.report = coord.report
             /\ coord'.shipment_id = coord.shipment_id]_vars

\* A run confirmed at its second attempt, for a report of score 100
OneAttemptSequenceWitness ==
    /\ coord.stage = "Confirmed"
    /\ Len(coord.attempts) = 2
    /\ coord.attempts[1] = coord.attempts[2]
    /\ coord.report.confidence_score = 100

\* C23: the shipment_id generated for a request that supplies none is
\* fresh.  When a request whose identifier was generated is followed by
\* another such request, at whatever instant, the two identifiers differ.
GeneratedIdsFresh ==
    [][(/\ ui.isLoading
        /\ ~ui'.isLoading
        /\ MockIdGenerated(ui)
        /\ MockIdGenerated(ui'))
       => ui'.result.shipment_id # ui.result.shipment_id]_vars

\* C24: a submission is only started with an event description that has a
\* character other than white space, passed on as typed; and a shipment-id
\* field left empty is passed as null, never as the empty string.
SubmissionsNotEmpty ==
    [][Len(ui'.inFlight) > Len(ui.inFlight)
       => LET request == ui'.inFlight[Len(ui'.inFlight)]
          IN  /\ \E n \in DOMAIN request.event_description :
                     request.event_description[n] # " "
              /\ request.event_description = ui.eventText
              /\ request.shipment_id # <<>>
              /\ ui.shipmentId = <<>> => request.shipment_id = NullId
              /\ ui.shipmentId # <<>> => request.shipment_id = ui.shipmentId]_vars

\* A submission in flight for a description typed with white space around
\* it and an empty shipment-id field
SubmissionsNotEmptyWitness ==
    /\ ui.isLoading
    /\ ui.shipmentId = <<>>
    /\ ui.inFlight = <<Request(<<" ", "d", " ">>, NullId)>>

\* C30: isLoading is true exactly while a submission started by
\* handleSubmitEvent is in flight; no submission starts while one is in
\* flight; and every submission settles, after which isLoading is false
\* again.
LoadingWhileInFlight ==
    /\ [](ui.isLoading <=> ui.inFlight # <<>>)
    /\ [][ui.isLoading => Len(ui'.inFlight) <= Len(ui.inFlight)]_vars
    /\ (ui.isLoading ~> ~ui.isLoading)

\* A second submission is in flight after an earlier one has settled with
\* the backend unreachable
LoadingWhileInFlightWitness ==
    /\ ui.isLoading
    /\ Len(ui.inFlight) = 1
    /\ ui.fetched = Unreachable
    /\ ui.result.present

\* C29: in the SuiService, connected is true exactly when address is not
\* null; and a connect that does not succeed returns {success: false, error}
\* to its caller without throwing and leaves connected and address as they
\* were.
ConnectedIffAddress ==
    /\ [](sui.connected <=> sui.address # Null)
    /\ [][(Len(sui'.calls) < Len(sui.calls) \/ sui'.returned # sui.returned)
            /\ ~sui'.returned.success
           => /\ sui'.returned.outcome = "returned"
              /\ sui'.returned.error # Null
              /\ sui'.connected = sui.connected
              /\ sui'.address = sui.address]_vars

\* C27: through the module's entry functions alone, every record is owned
\* by the address recorded as its oracle_address: creation transfers the
\* record to the sender it records, and only the owner can update, who is
\* then recorded.
OwnerIsOracleAddress ==
    \A o \in Objects : owner[o] = get_oracle_address(shipments[o])

\* A record created by an address other than the publisher and then
\* updated by its owner
OwnerIsOracleAddressWitness ==
    /\ Succeeded("update_shipment")
    /\ owner[lastTx.obj] # registries[1].owner
    /\ get_oracle_address(shipments[lastTx.obj]) = owner[lastTx.obj]

\* C28: with a ledger clock that never decreases, no step lowers the
\* timestamp of a record, and the events emitted for one shipment_id carry
\* timestamps that do not decrease in emission order.
TimestampsNeverDecrease ==
    /\ [](\A i \in DOMAIN events, j \in DOMAIN events :
             i < j /\ events[i].shipment_id = events[j].shipment_id
             => events[i].timestamp <= events[j].timestamp)
    /\ [][\A o \in Objects :
             get_timestamp(shipments'[o]) >= get_timestamp(shipments[o])]_vars

\* A record created by oracle_update at clock 0 whose update at a later
\* clock value emitted the second event for its shipment_id
TimestampsNeverDecreaseWitness ==
    /\ Succeeded("update_shipment")
    /\ Len(events) = 2
    /\ events[1].type = "ShipmentUpdated"
    /\ events[1].shipment_id = events[2].shipment_id
    /\ events[1].timestamp < events[2].timestamp
    /\ get_timestamp(shipments[1]) = events[2].timestamp

\* C25: encode is injective: no triple other than the one encoded has the
\* same bytes, also when the shipment_id or the summary contains the byte a
\* delimiter would be.
EncodeInjective ==
    signer.encoded.present
    => \A shipment_id \in Strings, summary \in Strings, confidence_score \in ScoreInputs :
          encode(shipment_id, summary, confidence_score) = signer.encoded.bytes
          => Triple(shipment_id, summary, confidence_score) = signer.encoded.triple

\* An encoded triple whose shipment_id ends with the delimiter byte: joined
\* by delimiters it would read the same as the triple with the delimiter
\* moved into the summary
EncodeInjectiveWitness ==
    /\ signer.encoded.present
    /\ signer.encoded.triple = Triple(<<97, Delimiter>>, <<>>, 100)
    /\ signer.encoded.bytes = <<2, 97, Delimiter, 0, 100>>

\* C26: a signature of the Signer over a payload verifies against the
\* Signer's public key and the signed bytes, whatever the nonce; it does
\* not verify against the Signer's public key and other bytes, nor against
\* another public key and the signed bytes.
VerifyRoundTrip ==
    LET same == signer.verdict.bytes = signer.signed
        own == signer.verdict.public_key = public_key(signer.key)
    IN  signer.verdict.present
        => /\ same /\ own => signer.verdict.valid
           /\ ~same /\ own => ~signer.verdict.valid
           /\ same /\ ~own => ~signer.verdict.valid

\* The Signer's signature over the second payload was verified against its
\* own public key and the signed bytes, and found valid
VerifyRoundTripWitness ==
    /\ signer.verdict.present
    /\ signer.verdict.valid
    /\ signer.signed = Payloads[2]
    /\ signer.verdict.bytes = signer.signed
    /\ signer.verdict.public_key = public_key(signer.key)

====
